---------------------------- MODULE Spec2Model ----------------------------
(***************************************************************************)
(* A model of the rnix tokenizer (src/src/tokenizer.rs).                   *)
(*                                                                         *)
(* A source text is a sequence of one-character strings.  The Tokenizer    *)
(* struct {input, row, col} is the record [input, row, col, ovf]; ovf is   *)
(* an auxiliary flag that remembers that the u32 divisor of the fractional *)
(* reader overflowed during the current pull (the outcome of that overflow *)
(* depends on the build).  Every reader is an operator from a cursor to a  *)
(* record [st |-> cursor after the call, item |-> Option<Item> returned].  *)
(* The state machine has one operation, the pull Iterator::next.           *)
(***************************************************************************)
EXTENDS Integers, Sequences, FiniteSets, TLC

VARIABLES
    src,      \* the text handed to tokenize (never changes)
    input,    \* Tokenizer.input: the text not yet consumed
    row,      \* Tokenizer.row
    col,      \* Tokenizer.col
    last,     \* what the latest pull returned (kind "Start" before any pull)
    erred,    \* history: some earlier pull returned an Err item
    prevEnd,  \* history: span.end of the latest Ok item of the stream, or <<>>
    tick      \* history: parity of the number of pulls made so far

vars == <<src, input, row, col, last, erred, prevEnd, tick>>

-----------------------------------------------------------------------------
(* Characters and character classes                                        *)

NoChar == ""    \* Option<char>::None

Lower == {"a","b","c","d","e","f","g","h","i","j","k","l","m",
          "n","o","p","q","r","s","t","u","v","w","x","y","z"}
Upper == {"A","B","C","D","E","F","G","H","I","J","K","L","M",
          "N","O","P","Q","R","S","T","U","V","W","X","Y","Z"}
Letters == Lower \cup Upper
Digits10 == <<"0","1","2","3","4","5","6","7","8","9">>
Digits == {Digits10[i] : i \in 1..10}

\* char::to_digit(10) on an ASCII digit
to_digit(c) == (CHOOSE i \in 1..10 : Digits10[i] = c) - 1

\* char::is_whitespace, on the characters of the model's texts
is_whitespace(c) == c \in {" ", "\t", "\n", "\r"}

is_valid_path_char(c) == c \in Letters \cup Digits \cup {"/", "_", ".", "+", "-"}

\* the class skipped by the lookahead of Iterator::next
is_lookahead_char(c) == c \in Letters \cup Digits \cup {"_", ".", "+", "-"}

\* the include closure of the identifier / URI branch
is_ident_char(c, kind) ==
    \/ c \in Letters \cup Digits \cup {"_"}
    \/ /\ c \in {":", "?", "@", "&", "=", "$", ",", "!", "~", "*", "'", "%"}
       /\ kind = "Uri"
    \/ kind = "Uri" /\ is_valid_path_char(c)

\* every character one of the include closures can accept
Includable ==
    Letters \cup Digits \cup
    {"/", "_", ".", "+", "-", ":", "?", "@", "&", "=", "$", ",", "!", "~", "*", "'", "%"}
PathChars == {c \in Includable : is_valid_path_char(c)}
IdentChars(kind) == {c \in Includable : is_ident_char(c, kind)}

-----------------------------------------------------------------------------
(* Cursor: Tokenizer::peek, Tokenizer::next                                *)

peek(st) == IF st.input = <<>> THEN NoChar ELSE Head(st.input)

\* Tokenizer::next that counts a column also when there is nothing to read
next_mut(st) ==
    IF st.input = <<>> THEN [st EXCEPT !.col = st.col + 1]
    ELSE IF Head(st.input) = "\n"
         THEN [st EXCEPT !.input = Tail(st.input), !.col = 0, !.row = st.row + 1]
         ELSE [st EXCEPT !.input = Tail(st.input), !.col = st.col + 1]
next(st) ==
    IF st.input = <<>> THEN st
    ELSE IF Head(st.input) = "\n"
         THEN [st EXCEPT !.input = Tail(st.input), !.col = 0, !.row = st.row + 1]
         ELSE [st EXCEPT !.input = Tail(st.input), !.col = st.col + 1]

\* n calls of Tokenizer::next
RECURSIVE next_n(_, _)
next_n(st, n) == IF n = 0 THEN st ELSE next_n(next(st), n - 1)

\* &input[n..]
Drop(s, n) == SubSeq(s, n + 1, Len(s))

-----------------------------------------------------------------------------
(* Spans, metas, items                                                     *)

NoPos == <<>>   \* Option<(u64, u64)>::None

\* Span {start, end}; at/upto are auxiliary: the number of code points still
\* unread when start (end) was taken, which locates the span in the text.
span_start(st) ==
    [start |-> <<st.row, st.col>>, end |-> NoPos, at |-> Len(st.input), upto |-> -1]

Meta(span, comments) == [span |-> span, comments |-> comments]

NoTok == [t |-> "", anchor |-> "", s |-> <<>>, num |-> <<>>, frac |-> <<>>, parts |-> <<>>]
Tok(t) == [NoTok EXCEPT !.t = t]
TokIdent(s) == [NoTok EXCEPT !.t = "Ident", !.s = s]
TokPath(anchor, s) == [NoTok EXCEPT !.t = "Path", !.anchor = anchor, !.s = s]
TokStr(s) == [NoTok EXCEPT !.t = "Str", !.s = s]
TokInteger(n) == [NoTok EXCEPT !.t = "Integer", !.num = n]
TokFloat(n, frac) == [NoTok EXCEPT !.t = "Float", !.num = n, !.frac = frac]
TokInterpol(parts) == [NoTok EXCEPT !.t = "Interpol", !.parts = parts]

Literal(s) == [p |-> "Literal", s |-> s, toks |-> <<>>]
Tokens(toks) == [p |-> "Tokens", s |-> <<>>, toks |-> toks]

NoMeta == [span |-> [start |-> <<0, 0>>, end |-> NoPos, at |-> -1, upto |-> -1],
           comments |-> <<>>]
Item(kind, meta, tok, err) == [kind |-> kind, meta |-> meta, tok |-> tok, err |-> err]
ItemNone == Item("None", NoMeta, NoTok, "")
ItemPanic == Item("Panic", NoMeta, NoTok, "")
ItemStart == Item("Start", NoMeta, NoTok, "")

Ret(st, item) == [st |-> st, item |-> item]

\* Some(Err((meta.span, error))): the comments of meta are dropped
span_err(st, meta, error) ==
    Ret(st, Item("Err", Meta(meta.span, <<>>), NoTok, error))

\* span_end with the end taken one column too far
span_end_mut(st, meta, token) ==
    Ret(st, Item("Ok",
                 [meta EXCEPT !.span.end = <<st.row, st.col + 1>>,
                              !.span.upto = Len(st.input)],
                 token, ""))
span_end(st, meta, token) ==
    Ret(st, Item("Ok",
                 [meta EXCEPT !.span.end = <<st.row, st.col>>,
                              !.span.upto = Len(st.input)],
                 token, ""))

-----------------------------------------------------------------------------
(* Machine integers.  An i64 >= 0 is <<h, m, l>> with value h*Base^2 +     *)
(* m*Base + l and 0 <= m, l < Base; a u32 is <<hi, lo>> with value         *)
(* hi*2^16 + lo.  This keeps every intermediate within the checker's       *)
(* integers while the arithmetic keeps the machine's width.                *)

RADIX == 10
Base == 10 ^ 7
I64Max == <<92233, 7203685, 4775807>>     \* 2^63 - 1
NoI64 == <<>>                             \* Option<i64>::None

LimbLeq(x, y) ==
    \/ x[1] < y[1]
    \/ x[1] = y[1] /\ x[2] < y[2]
    \/ x[1] = y[1] /\ x[2] = y[2] /\ x[3] <= y[3]

Carry(h, m, l) ==
    LET m2 == m + (l \div Base)
    IN  <<h + (m2 \div Base), m2 % Base, l % Base>>

I64From(d) == <<0, 0, d>>

checked_mul(x, k) ==
    LET r == Carry(x[1] * k, x[2] * k, x[3] * k)
    IN  IF LimbLeq(r, I64Max) THEN r ELSE NoI64

\* checked_add without the range check (a plain add)
checked_add_mut(x, d) == Carry(x[1], x[2], x[3] + d)
checked_add(x, d) ==
    LET r == Carry(x[1], x[2], x[3] + d)
    IN  IF LimbLeq(r, I64Max) THEN r ELSE NoI64

\* num.checked_mul(RADIX as i64).and_then(|num| num.checked_add(digit as i64))
mul_add(num, digit) ==
    LET p == checked_mul(num, RADIX)
    IN  IF p = NoI64 THEN NoI64 ELSE checked_add(p, digit)

U32One == <<0, 1>>
\* i *= RADIX on a u32: [v |-> the wrapped product, ovf |-> it did not fit]
u32_mul(i, k) ==
    LET lo == i[2] * k
        hi == i[1] * k + (lo \div 65536)
    IN  [v |-> <<hi % 65536, lo % 65536>>, ovf |-> hi >= 65536]

-----------------------------------------------------------------------------
(* Tokenizer::next_ident                                                   *)

\* The loop of next_ident; include is the set of characters the closure
\* accepts.  The capacity assertion counts code points where the String
\* counts bytes; the closures accept ASCII only, so the two agree.
RECURSIVE next_ident(_, _, _)
next_ident(st, prefix, include) ==
    IF st.input # <<>> /\ Head(st.input) \in include
    THEN next_ident(next(st), Append(prefix, Head(st.input)), include)
    ELSE [st |-> st, ident |-> prefix]

-----------------------------------------------------------------------------
(* Trivia loop of Iterator::next                                           *)

\* str::find(c): the 1-based index of the first c, or 0
find_char(s, c) ==
    IF \E i \in 1..Len(s) : s[i] = c
    THEN CHOOSE i \in 1..Len(s) : s[i] = c /\ \A j \in 1..(i - 1) : s[j] # c
    ELSE 0

\* str::find("*/"): the 1-based index of the '*' of the first "*/", or 0.
\* The search starts at the first code point of s, the '/' of the opening "/*".
find_close(s) ==
    LET Hit(i) == s[i] = "*" /\ s[i + 1] = "/"
    IN  IF \E i \in 1..(Len(s) - 1) : Hit(i)
        THEN CHOOSE i \in 1..(Len(s) - 1) : Hit(i) /\ \A j \in 1..(i - 1) : ~Hit(j)
        ELSE 0

RECURSIVE skip_whitespace(_)
skip_whitespace(st) ==
    IF st.input # <<>> /\ is_whitespace(Head(st.input))
    THEN skip_whitespace(next(st))
    ELSE st

\* the '#' arm without the row += 1
hash_comment_mut(st, meta) ==
    LET nl == find_char(st.input, "\n")
        end == IF nl > 0 THEN nl ELSE Len(st.input)
    IN  [st   |-> [st EXCEPT !.input = Drop(st.input, end), !.col = 0],
         meta |-> [meta EXCEPT !.comments = Append(@, SubSeq(st.input, 2, end))]]
\* the '#' arm: the view jumps past the line, row += 1, col = 0
hash_comment(st, meta) ==
    LET nl == find_char(st.input, "\n")
        end == IF nl > 0 THEN nl ELSE Len(st.input)
    IN  [st   |-> [st EXCEPT !.input = Drop(st.input, end),
                             !.row = st.row + 1, !.col = 0],
         meta |-> [meta EXCEPT !.comments = Append(@, SubSeq(st.input, 2, end))]]

\* The loop at the head of Iterator::next.  out is "break" when the loop is
\* left normally, "err" for UnclosedComment, "panic" when the slice
\* input[2..end] is taken with end < 2.
RECURSIVE trivia(_, _)
trivia(st0, meta) ==
    LET st == skip_whitespace(st0)
        c == peek(st)
    IN  IF c = "#"
        THEN LET h == hash_comment(st, meta) IN trivia(h.st, h.meta)
        ELSE IF c = "/" /\ Len(st.input) >= 2 /\ st.input[2] = "*"
        THEN LET star == find_close(st.input)
                 end == star - 1      \* the byte index str::find returns
             IN  IF star = 0 THEN [st |-> st, meta |-> meta, out |-> "err"]
                 ELSE IF end < 2 THEN [st |-> st, meta |-> meta, out |-> "panic"]
                 ELSE trivia(next_n(st, end + 2),
                             [meta EXCEPT !.comments =
                                  Append(@, SubSeq(st.input, 3, end))])
        ELSE [st |-> st, meta |-> meta, out |-> "break"]

-----------------------------------------------------------------------------
(* Lookahead classifier of Iterator::next                                  *)

RECURSIVE skip_while(_)
skip_while(s) ==
    IF s # <<>> /\ is_lookahead_char(Head(s)) THEN skip_while(Tail(s)) ELSE s

\* the classifier without the whitespace test on the second code point
classify_mut(s) ==
    LET lookahead == skip_while(s)
    IN  IF Len(lookahead) >= 2 /\ lookahead[1] = ":"
        THEN "Uri"
        ELSE IF Len(lookahead) >= 2 /\ lookahead[1] = "/"
        THEN "Path"
        ELSE "None"
\* the classifier with the whitespace test made on all that follows the ':'
\* or '/', not on the one code point after it
classify_rest(s) ==
    LET lookahead == skip_while(s)
        Clear == \A i \in 2..Len(lookahead) : ~is_whitespace(lookahead[i])
    IN  IF Len(lookahead) >= 2 /\ lookahead[1] = ":" /\ Clear
        THEN "Uri"
        ELSE IF Len(lookahead) >= 2 /\ lookahead[1] = "/" /\ Clear
        THEN "Path"
        ELSE "None"
\* kind: "Uri", "Path" or "None" (Option<IdentType>::None)
classify(s) ==
    LET lookahead == skip_while(s)
    IN  IF Len(lookahead) >= 2 /\ lookahead[1] = ":" /\ ~is_whitespace(lookahead[2])
        THEN "Uri"
        ELSE IF Len(lookahead) >= 2 /\ lookahead[1] = "/" /\ ~is_whitespace(lookahead[2])
        THEN "Path"
        ELSE "None"

-----------------------------------------------------------------------------
(* Numeric branch of Iterator::next                                        *)

\* while let Some(digit) = ...: the integer digits after the first.
\* num = NoI64 reports the overflow; the cursor has consumed the digit.
RECURSIVE int_digits(_, _)
int_digits(st, num) ==
    IF peek(st) \in Digits
    THEN LET n2 == mul_add(num, to_digit(peek(st)))
         IN  IF n2 = NoI64 THEN [st |-> next(st), num |-> NoI64]
             ELSE int_digits(next(st), n2)
    ELSE [st |-> st, num |-> num]

\* the fractional loop: each digit is recorded with the divisor i applied to it
RECURSIVE frac_digits(_, _, _)
frac_digits(st, i, frac) ==
    IF peek(st) \in Digits
    THEN LET m == u32_mul(i, RADIX)
             st2 == next(st)
         IN  frac_digits([st2 EXCEPT !.ovf = st2.ovf \/ m.ovf], m.v,
                         Append(frac, [digit |-> to_digit(peek(st)), i |-> m.v]))
    ELSE [st |-> st, i |-> i, frac |-> frac]

\* '0'..='9' => ...; st is the cursor after the first digit c
number(st, meta, c) ==
    LET ds == int_digits(st, I64From(to_digit(c)))
    IN  IF ds.num = NoI64 THEN span_err(ds.st, meta, "IntegerOverflow")
        ELSE IF peek(ds.st) = "."
        THEN LET fs == frac_digits(next(ds.st), U32One, <<>>)
             IN  IF fs.i = U32One
                 THEN span_err(fs.st, meta, "TrailingDecimal")
                 ELSE span_end(fs.st, meta, TokFloat(ds.num, fs.frac))
        ELSE span_end(ds.st, meta, TokInteger(ds.num))

-----------------------------------------------------------------------------
(* Path, store-path and identifier branches of Iterator::next              *)

\* if c == '~' || kind == Some(IdentType::Path); st is the cursor after c
path(st, meta, c) ==
    IF c = "~" /\ peek(st) # "/"
    THEN span_err(next(st), meta, "UndefinedToken")
    ELSE LET anchor == IF c = "~" THEN "Home"
                       ELSE IF c = "/" THEN "Absolute" ELSE "Relative"
             r == IF c = "~" THEN next_ident(next(st), <<>>, PathChars)
                  ELSE next_ident(st, <<c>>, PathChars)
         IN  IF r.ident # <<>> /\ r.ident[Len(r.ident)] = "/"
             THEN span_err(r.st, meta, "TrailingSlash")
             ELSE span_end(r.st, meta, TokPath(anchor, r.ident))

\* '<' => ...
store_path(st, meta) ==
    LET r == next_ident(st, <<>>, PathChars)
    IN  IF peek(r.st) # ">"
        THEN span_err(next(r.st), meta, "UndefinedToken")
        ELSE span_end(next(r.st), meta, TokPath("Store", r.ident))

\* the keyword table without its last row
keyword_mut(ident) ==
    IF ident = <<"l", "e", "t">> THEN Tok("Let")
    ELSE IF ident = <<"i", "n">> THEN Tok("In")
    ELSE IF ident = <<"w", "i", "t", "h">> THEN Tok("With")
    ELSE IF ident = <<"i", "m", "p", "o", "r", "t">> THEN Tok("Import")
    ELSE TokIdent(ident)
\* match &*ident { "let" => Token::Let, ... , _ => Token::Ident(ident) }
keyword(ident) ==
    IF ident = <<"l", "e", "t">> THEN Tok("Let")
    ELSE IF ident = <<"i", "n">> THEN Tok("In")
    ELSE IF ident = <<"w", "i", "t", "h">> THEN Tok("With")
    ELSE IF ident = <<"i", "m", "p", "o", "r", "t">> THEN Tok("Import")
    ELSE IF ident = <<"r", "e", "c">> THEN Tok("Rec")
    ELSE TokIdent(ident)

\* 'a'..='z' | 'A'..='Z' => ...; kind0 is the classifier's Option<IdentType>.
\* The assert_ne!(kind, Path) cannot fail: a Path verdict returned earlier.
ident_or_uri(st, meta, c, kind0) ==
    LET kind == IF kind0 = "None" THEN "Ident" ELSE kind0
        r == next_ident(st, <<c>>, IdentChars(kind))
    IN  IF kind = "Ident"
        THEN span_end(r.st, meta, keyword(r.ident))
        ELSE span_end(r.st, meta, TokPath("Uri", r.ident))

-----------------------------------------------------------------------------
(* Iterator::next and Tokenizer::next_string (mutually recursive)          *)

\* while self.peek() == Some(' ') || self.peek() == Some('\t') { self.next(); }
RECURSIVE skip_indent(_)
skip_indent(st) ==
    IF peek(st) \in {" ", "\t"} THEN skip_indent(next(st)) ELSE st

\* the flush that keeps an empty literal buffer to itself
push_literal_mut(interpol, literal) ==
    IF literal # <<>> THEN Append(interpol, Literal(literal)) ELSE interpol
\* interpol.push(Interpol::Literal(mem::replace(&mut literal, String::new()))):
\* the "${" arm flushes the literal buffer, empty or not
push_literal(interpol, literal) == Append(interpol, Literal(literal))

\* the newline arm that pushes every newline
push_newline_mut(literal) == Append(literal, "\n")
\* if !literal.is_empty() { literal.push('\n'); }
push_newline(literal) == IF literal # <<>> THEN Append(literal, "\n") ELSE literal

\* the escape arm without its guard: a backslash escapes in both modes
is_escape_mut(c, multiline) == c = "\\"
\* Some('\\') if !multiline
is_escape(c, multiline) == c = "\\" /\ ~multiline

RECURSIVE IteratorNext(_)
RECURSIVE next_string(_, _, _, _, _)
RECURSIVE interpol_tokens(_, _, _, _)

\* the loop that wraps an inner error in the span of the enclosing string
interpol_tokens_wrap(st, meta, tokens, count) ==
    LET r == IteratorNext(st)
        k == r.item.kind
        t == r.item.tok.t
    IN  IF k = "None"
        THEN [out |-> "return", r |-> span_err(r.st, meta, "UnexpectedEOF"), toks |-> <<>>]
        ELSE IF k # "Ok"
        THEN [out |-> "return", r |-> span_err(r.st, meta, r.item.err), toks |-> <<>>]
        ELSE IF t = "CurlyBClose" /\ count = 0
        THEN [out |-> "break", r |-> r, toks |-> tokens]
        ELSE interpol_tokens(r.st, meta,
                 Append(tokens, [meta |-> r.item.meta, tok |-> r.item.tok]),
                 IF t = "CurlyBOpen" THEN count + 1
                 ELSE IF t = "CurlyBClose" THEN count - 1
                 ELSE count)
\* the loop without the depth counter: any CurlyBClose closes the group
interpol_tokens_mut(st, meta, tokens, count) ==
    LET r == IteratorNext(st)
        k == r.item.kind
        t == r.item.tok.t
    IN  IF k = "None"
        THEN [out |-> "return", r |-> span_err(r.st, meta, "UnexpectedEOF"), toks |-> <<>>]
        ELSE IF k # "Ok"
        THEN [out |-> "return", r |-> r, toks |-> <<>>]
        ELSE IF t = "CurlyBClose"
        THEN [out |-> "break", r |-> r, toks |-> tokens]
        ELSE interpol_tokens(r.st, meta,
                 Append(tokens, [meta |-> r.item.meta, tok |-> r.item.tok]), count)
\* The loop of next_string's "${" arm.  out = "break": the group is closed and
\* toks are its tokens; out = "return": next_string returns item.
interpol_tokens(st, meta, tokens, count) ==
    LET r == IteratorNext(st)
        k == r.item.kind
        t == r.item.tok.t
    IN  IF k = "None"
        THEN [out |-> "return", r |-> span_err(r.st, meta, "UnexpectedEOF"), toks |-> <<>>]
        ELSE IF k # "Ok"
        THEN [out |-> "return", r |-> r, toks |-> <<>>]
        ELSE IF t = "CurlyBClose" /\ count = 0
        THEN [out |-> "break", r |-> r, toks |-> tokens]
        ELSE interpol_tokens(r.st, meta,
                 Append(tokens, [meta |-> r.item.meta, tok |-> r.item.tok]),
                 IF t = "CurlyBOpen" THEN count + 1
                 ELSE IF t = "CurlyBClose" THEN count - 1
                 ELSE count)

\* one call per iteration of next_string's loop; interpol and literal are
\* its two locals
next_string(st, meta, multiline, interpol, literal) ==
    LET c == peek(st)
        close ==
            IF interpol = <<>>
            THEN TokStr(literal)
            ELSE TokInterpol(IF literal # <<>>
                             THEN Append(interpol, Literal(literal))
                             ELSE interpol)
    IN  IF c = NoChar
        THEN span_err(st, meta, "UnexpectedEOF")
        ELSE IF c = "\"" /\ ~multiline
        THEN span_end(next(st), meta, close)
        ELSE IF c = "'" /\ multiline
        THEN LET st2 == next(st)
             IN  IF peek(st2) = NoChar THEN span_err(st2, meta, "UnexpectedEOF")
                 ELSE IF peek(st2) = "'" THEN span_end(next(st2), meta, close)
                 ELSE next_string(st2, meta, multiline, interpol, Append(literal, "'"))
        ELSE IF c = "\n" /\ multiline
        THEN next_string(skip_indent(next(st)), meta, multiline, interpol,
                         push_newline(literal))
        ELSE IF is_escape(c, multiline)
        THEN LET st2 == next(st)
             IN  IF peek(st2) = NoChar THEN Ret(st2, ItemNone)
                 ELSE next_string(next(st2), meta, multiline, interpol,
                                  Append(literal, peek(st2)))
        ELSE IF c = "$"
        THEN LET st2 == next(st)
             IN  IF peek(st2) = "{"
                 THEN LET g == interpol_tokens(next(st2), meta, <<>>, 0)
                      IN  IF g.out = "return" THEN g.r
                          ELSE next_string(g.r.st, meta, multiline,
                                   Append(push_literal(interpol, literal),
                                          Tokens(g.toks)),
                                   <<>>)
                 ELSE next_string(st2, meta, multiline, interpol, Append(literal, "$"))
        ELSE next_string(next(st), meta, multiline, interpol, Append(literal, c))

Punct(c) ==
    CASE c = "{" -> "CurlyBOpen"
      [] c = "}" -> "CurlyBClose"
      [] c = "=" -> "Equal"
      [] c = ";" -> "Semicolon"
      [] c = "[" -> "SquareBOpen"
      [] c = "]" -> "SquareBClose"
      [] c = "(" -> "ParenOpen"
      [] c = ")" -> "ParenClose"
      [] c = "+" -> "Add"
      [] c = "-" -> "Sub"
      [] c = "*" -> "Mul"
      [] c = "/" -> "Div"
      [] c = "." -> "Dot"
      [] OTHER -> ""

\* match c { ... }; st is the cursor after c
dispatch(st, meta, c, kind) ==
    IF c = "+" /\ peek(st) = "+" THEN span_end(next(st), meta, Tok("Concat"))
    ELSE IF Punct(c) # "" THEN span_end(st, meta, Tok(Punct(c)))
    ELSE IF c = "<" THEN store_path(st, meta)
    ELSE IF c \in Letters THEN ident_or_uri(st, meta, c, kind)
    ELSE IF c = "\"" THEN next_string(st, meta, FALSE, <<>>, <<>>)
    ELSE IF c = "'" /\ peek(st) = "'" THEN next_string(next(st), meta, TRUE, <<>>, <<>>)
    ELSE IF c \in Digits THEN number(st, meta, c)
    ELSE span_err(st, meta, "UndefinedToken")

IteratorNext(st0) ==
    LET tr == trivia(st0, Meta(span_start(st0), <<>>))
        st == tr.st
    IN  IF tr.out = "err" THEN span_err(st, tr.meta, "UnclosedComment")
        ELSE IF tr.out = "panic" THEN Ret(st, ItemPanic)
        ELSE LET kind == classify(st.input)
                 meta == [tr.meta EXCEPT !.span = span_start(st)]
                 c == peek(st)
             IN  IF c = NoChar THEN Ret(next(st), ItemNone)     \* let c = self.next()?
                 ELSE IF c = "~" \/ kind = "Path" THEN path(next(st), meta, c)
                 ELSE dispatch(next(st), meta, c, kind)

-----------------------------------------------------------------------------
(* The state machine: tokenize builds the Tokenizer, the caller pulls      *)

\* the text made of the fragments fs, in order
RECURSIVE Flatten(_)
Flatten(fs) == IF fs = <<>> THEN <<>> ELSE Head(fs) \o Flatten(Tail(fs))

\* every text made of at most n fragments drawn from frags
TextsOf(frags, n) == {Flatten(fs) : fs \in UNION {[1..k -> frags] : k \in 0..n}}

\* tokenize(input) = Tokenizer::new(input): the cursor at (0, 0) on the text
tokenize(text) ==
    /\ src = text
    /\ input = text
    /\ row = 0
    /\ col = 0
    /\ last = ItemStart
    /\ erred = FALSE
    /\ prevEnd = NoPos
    /\ tick = 0

\* One pull: Iterator::next on the Tokenizer.  A panic ends the program, so
\* nothing is pulled after one.  When the u32 divisor of the fractional
\* reader overflowed, the build decides: a build with overflow checks panics
\* there, one without them carries on with the wrapped divisor.
Pull ==
    /\ last.kind # "Panic"
    /\ LET r == IteratorNext([input |-> input, row |-> row, col |-> col, ovf |-> FALSE])
       IN  \E checks \in (IF r.st.ovf THEN BOOLEAN ELSE {FALSE}) :
               /\ input' = r.st.input
               /\ row' = r.st.row
               /\ col' = r.st.col
               /\ last' = IF checks THEN ItemPanic ELSE r.item
    /\ erred' = (erred \/ last.kind = "Err")
    /\ prevEnd' = IF last.kind = "Ok" THEN last.meta.span.end ELSE prevEnd
    /\ tick' = 1 - tick
    /\ UNCHANGED src

Next == Pull

-----------------------------------------------------------------------------
(* Specifications: the same machine over families of texts                 *)

MaxFrags == 4      \* fragments per text, comment and path/number families
MaxBody == 3       \* fragments between the opening and the closing of a string

\* comments, whitespace and the tokens around them
TriviaFrags ==
    {<<"/", "*">>, <<"*", "/">>, <<"/">>, <<"*">>, <<"#">>, <<"\n">>, <<" ">>,
     <<"a">>, <<"~">>, <<"\"">>, <<"$", "{">>, <<"}">>}
InitTrivia == \E text \in TextsOf(TriviaFrags, MaxFrags) : tokenize(text)
SpecTrivia == InitTrivia /\ [][Next]_vars

\* short texts with comments, and a caller that keeps pulling
MaxCommentFrags == 2
CommentFrags ==
    {<<"/", "*">>, <<"*", "/">>, <<"/">>, <<"*">>, <<"#">>, <<"\n">>, <<" ">>, <<"a">>}
InitComment == \E text \in TextsOf(CommentFrags, MaxCommentFrags) : tokenize(text)
FairComment == InitComment /\ [][Next]_vars /\ WF_vars(Pull)

\* identifiers, paths and URIs
PathFrags ==
    {<<"a">>, <<"3">>, <<"/">>, <<":">>, <<" ">>, <<"~">>, <<"<">>, <<">">>, <<".">>}
InitPath == \E text \in TextsOf(PathFrags, MaxFrags) : tokenize(text)
SpecPath == InitPath /\ [][Next]_vars

\* numbers around the i64 range: Near is the first 18 digits of 2^63
Near == <<"9","2","2","3","3","7","2","0","3","6","8","5","4","7","7","5","8","0">>
NumFrags ==
    {Near, <<"0">>, <<"7">>, <<"8">>, <<"9">>, <<".">>, <<" ">>, <<"/">>, <<":">>}
InitNum == \E text \in TextsOf(NumFrags, MaxFrags) : tokenize(text)
SpecNum == InitNum /\ [][Next]_vars

\* keywords and what may stand next to them
MaxWords == 3
WordFrags ==
    {<<"l", "e", "t">>, <<"i", "n">>, <<"w", "i", "t", "h">>,
     <<"i", "m", "p", "o", "r", "t">>, <<"r", "e", "c">>,
     <<"a">>, <<"3">>, <<"_">>, <<" ">>, <<":">>, <<"/">>, <<".">>}
InitWord == \E text \in TextsOf(WordFrags, MaxWords) : tokenize(text)
SpecWord == InitWord /\ [][Next]_vars

\* numbers with long fractional parts: Zeros is nine digits
Zeros == <<"0", "0", "0", "0", "0", "0", "0", "0", "0">>
FracFrags == {Zeros, <<"0">>, <<"1">>, <<"5">>, <<".">>, <<" ">>}
InitFrac == \E text \in TextsOf(FracFrags, MaxFrags) : tokenize(text)
SpecFrac == InitFrac /\ [][Next]_vars

\* strings: an opening, a body, a closing
StrOpen ==
    {<<>>, <<"\"">>, <<"'", "'">>, <<"\"", "$", "{">>, <<"'", "'", "$", "{">>,
     <<"\"", "$", "{", "\"", "$", "{">>, <<"\"", "$", "{", "'", "'", "$", "{">>}
StrClose ==
    {<<>>, <<"\"">>, <<"'", "'">>, <<"}", "\"">>, <<"}", "'", "'">>,
     <<"}", "\"", "}", "\"">>, <<"}", "'", "'", "}", "\"">>}
StrFrags ==
    {<<"a">>, <<" ">>, <<"\n">>, <<"\\">>, <<"\"">>, <<"$", "{">>, <<"{">>, <<"}">>}
InitStr ==
    \E o \in StrOpen, body \in TextsOf(StrFrags, MaxBody), c \in StrClose :
        tokenize(o \o body \o c)
SpecStr == InitStr /\ [][Next]_vars

-----------------------------------------------------------------------------
(* Vocabulary of the properties                                            *)

\* positions compare by row, then by column
PosLeq(a, b) == a[1] < b[1] \/ (a[1] = b[1] /\ a[2] <= b[2])

\* the (row, col) of the place k code points into text, counted from the text
TruePos(text, k) ==
    LET nls == {i \in 1..k : text[i] = "\n"}
        lastNl == IF nls = {} THEN 0 ELSE CHOOSE i \in nls : \A j \in nls : j <= i
    IN  <<Cardinality(nls), k - lastNl>>

\* the text from the place where the span of the latest item starts
TokText == Drop(src, Len(src) - last.meta.span.at)

\* the pull reached the classifier and its item carries the token's span
Classified ==
    /\ last.kind \in {"Ok", "Err"}
    /\ last.kind = "Err" => last.err # "UnclosedComment"

\* s without its leading whitespace
RECURSIVE Unspaced(_)
Unspaced(s) ==
    IF s # <<>> /\ Head(s) \in {" ", "\t", "\n", "\r"} THEN Unspaced(Tail(s)) ELSE s

\* s holds the two code points a, b next to each other from index from on
HasPair(s, a, b, from) == \E i \in from..(Len(s) - 1) : s[i] = a /\ s[i + 1] = b

\* the length of the longest prefix of s made of code points of class
RunLen(s, class) ==
    CHOOSE k \in 0..Len(s) :
        /\ \A i \in 1..k : s[i] \in class
        /\ k = Len(s) \/ s[k + 1] \notin class

\* the identifier-extended class [A-Za-z0-9_.+-]
ExtendedIdent == Letters \cup Digits \cup {"_", ".", "+", "-"}

\* the classifier verdict as the run R of ExtendedIdent code points and the
\* two code points after it define it
Verdict(s) ==
    LET r == RunLen(s, ExtendedIdent)
        Follows(c) ==
            /\ Len(s) >= r + 2
            /\ s[r + 1] = c
            /\ s[r + 2] \notin {" ", "\t", "\n", "\r"}
    IN  IF Follows(":") THEN "Uri"
        ELSE IF Follows("/") THEN "Path"
        ELSE "Ident"

-----------------------------------------------------------------------------
(* C1, C2: the stream after an error, and its length                       *)

\* C1: once a pull has returned an Err item, every later pull returns
\* end-of-stream (erred: an Err was returned before the latest pull).
C1_ErrEndsStream == erred => last.kind = "None"

\* C2: for every text, pulling again and again reaches end-of-stream after
\* finitely many items.  A pull that panics ends the pulling as well and is
\* counted here as an end, so that only a stream that goes on for ever
\* violates the formula.
C2_StreamIsFinite == <>(last.kind \in {"None", "Panic"})

-----------------------------------------------------------------------------
(* C3: tokens are in source order and do not overlap                       *)

Ordered(toks) ==
    \A i \in 1..(Len(toks) - 1) :
        PosLeq(toks[i].meta.span.end, toks[i + 1].meta.span.start)

RECURSIVE GroupsOrdered(_)
GroupsOrdered(tok) ==
    \A i \in 1..Len(tok.parts) :
        LET toks == tok.parts[i].toks
        IN  Ordered(toks) /\ \A j \in 1..Len(toks) : GroupsOrdered(toks[j].tok)

\* C3: in the top-level stream and, recursively, in every Tokens group of an
\* Interpol token, the span.start of a token is >= the span.end of the Ok
\* token before it, comparing (row, col) pairs.
C3_TokensInOrder ==
    last.kind = "Ok" =>
        /\ prevEnd # NoPos => PosLeq(prevEnd, last.meta.span.start)
        /\ GroupsOrdered(last.tok)

\* a group of at least two tokens inside a string that is itself inside a group
C3_Witness ==
    /\ last.kind = "Ok"
    /\ \E i \in 1..Len(last.tok.parts) :
         \E j \in 1..Len(last.tok.parts[i].toks) :
           \E k \in 1..Len(last.tok.parts[i].toks[j].tok.parts) :
             Len(last.tok.parts[i].toks[j].tok.parts[k].toks) >= 2

-----------------------------------------------------------------------------
(* C4: spans are the true positions in the text                            *)

SpanTrue(m) ==
    /\ m.span.upto < m.span.at
    /\ m.span.start = TruePos(src, Len(src) - m.span.at)
    /\ m.span.end = TruePos(src, Len(src) - m.span.upto)

RECURSIVE NestedSpansTrue(_)
NestedSpansTrue(tok) ==
    \A i \in 1..Len(tok.parts) :
        \A j \in 1..Len(tok.parts[i].toks) :
            /\ SpanTrue(tok.parts[i].toks[j].meta)
            /\ NestedSpansTrue(tok.parts[i].toks[j].tok)

\* C4: for every Ok token, span.start is the zero-based (row, col) of the
\* token's first code point (which is no whitespace) and span.end is the
\* (row, col) just after its last consumed code point, also after '#'
\* comments and after block comments that hold newlines.
C4_SpansAreTrue ==
    last.kind = "Ok" =>
        /\ SpanTrue(last.meta)
        /\ ~is_whitespace(TokText[1])
        /\ last.meta.span.end = <<row, col>>
        /\ NestedSpansTrue(last.tok)

\* a token on the second line, after a block comment that holds the newline
\* and ends two columns into that line
C4_Witness ==
    /\ last.kind = "Ok"
    /\ Len(src) >= 2 /\ src[1] = "/" /\ src[2] = "*"
    /\ Len(last.meta.comments) = 1
    /\ "\n" \in {last.meta.comments[1][i] : i \in 1..Len(last.meta.comments[1])}
    /\ last.meta.span.start = <<1, 2>>

-----------------------------------------------------------------------------
(* C5, C6: path bodies                                                     *)

\* C5: no emitted Path token, whatever its anchor, has a body that ends
\* with '/'.
C5_NoTrailingSlash ==
    (last.kind = "Ok" /\ last.tok.t = "Path" /\ last.tok.s # <<>>) =>
        last.tok.s[Len(last.tok.s)] # "/"

\* C6: the body of an emitted Path(Home, s) does not start with '/'.
C6_HomeBodyNoSlash ==
    (last.kind = "Ok" /\ last.tok.t = "Path" /\ last.tok.anchor = "Home"
        /\ last.tok.s # <<>>) =>
        last.tok.s[1] # "/"

-----------------------------------------------------------------------------
(* C7, C8: texts that end inside a string or a block comment               *)

\* C7, for a string without '$' (so that no token group is read): when the
\* pull that starts at an opening '"' or '' does not return the string's
\* token, the text ended before the closing delimiter, and the pull returns
\* Err UnexpectedEOF.
C7_UnclosedStringIsEOF ==
    [][ LET s == Unspaced(input)
        IN  (/\ s # <<>>
             /\ s[1] = "\"" \/ (Len(s) >= 2 /\ s[1] = "'" /\ s[2] = "'")
             /\ \A i \in 1..Len(s) : s[i] # "$"
             /\ last'.kind # "Ok")
            => (last'.kind = "Err" /\ last'.err = "UnexpectedEOF") ]_vars

\* C8: when the text ahead of a pull is whitespace, then "/*", and no "*/"
\* begins at or after the code point that follows the "/*", the pull returns
\* Err UnclosedComment as an item.
C8_UnclosedCommentIsErr ==
    [][ LET s == Unspaced(input)
        IN  (/\ Len(s) >= 2 /\ s[1] = "/" /\ s[2] = "*"
             /\ ~HasPair(s, "*", "/", 3))
            => (last'.kind = "Err" /\ last'.err = "UnclosedComment") ]_vars

-----------------------------------------------------------------------------
(* C9: integer literals                                                    *)

\* the digit run s without its leading zeros
RECURSIVE Unzeroed(_)
Unzeroed(s) == IF s # <<>> /\ Head(s) = "0" THEN Unzeroed(Tail(s)) ELSE s

\* the value of at most seven decimal digits, by place value
Places(ds) ==
    LET n == Len(ds)
        P(i) == IF i <= n THEN to_digit(ds[i]) * 10 ^ (n - i) ELSE 0
    IN  P(1) + P(2) + P(3) + P(4) + P(5) + P(6) + P(7)

\* the value of a run of at most 21 digits as <<h, m, l>>, by place value:
\* the last seven digits, the seven before them, and the rest
ValueOf(ds) ==
    LET n == Len(ds)
        Cut(a, b) == SubSeq(ds, IF a < 1 THEN 1 ELSE a, b)
    IN  <<Places(Cut(n - 20, n - 14)), Places(Cut(n - 13, n - 7)), Places(Cut(n - 6, n))>>

\* the value of the digit run ds is below 2^63
Below2p63(ds) ==
    LET u == Unzeroed(ds)
    IN  Len(u) <= 19 /\ LimbLeq(ValueOf(u), I64Max)

\* C9: a token that starts with a digit and is not classified as a path,
\* with decimal digit run of value n: if n < 2^63 and no '.' follows the
\* run, the token is Integer(n) and ends right after the run; if n >= 2^63
\* the pull returns Err IntegerOverflow whose span starts at the first digit
\* and has no end.  No Integer token holds a value outside 0 .. 2^63 - 1.
C9_IntegerExact ==
    /\ (Classified /\ TokText # <<>> /\ TokText[1] \in Digits
            /\ Verdict(TokText) # "Path") =>
         LET k == RunLen(TokText, Digits)
             run == SubSeq(TokText, 1, k)
         IN  IF Below2p63(run)
             THEN (k = Len(TokText) \/ TokText[k + 1] # ".") =>
                    /\ last.kind = "Ok"
                    /\ last.tok = TokInteger(ValueOf(Unzeroed(run)))
                    /\ last.meta.span.upto = last.meta.span.at - k
             ELSE /\ last.kind = "Err"
                  /\ last.err = "IntegerOverflow"
                  /\ last.meta.span.start = TruePos(src, Len(src) - last.meta.span.at)
                  /\ last.meta.span.end = NoPos
    /\ (last.kind = "Ok" /\ last.tok.t = "Integer") =>
         /\ LimbLeq(last.tok.num, I64Max)
         /\ \A i \in 1..3 : last.tok.num[i] >= 0

\* the literal 2^63 itself, read after another token, is refused
C9_Witness ==
    /\ last.kind = "Err"
    /\ last.err = "IntegerOverflow"
    /\ TokText = Near \o <<"8">>
    /\ last.meta.span.at < Len(src)

-----------------------------------------------------------------------------
(* C10: the lookahead classifier                                           *)

Keywords == {"Let", "In", "With", "Import", "Rec"}

\* C10: at each token start the classifier's verdict is Uri, Path or Ident as
\* the run R and the two code points after it say, and the token read is the
\* one the verdict asks for: a Path verdict gives one Path token that starts
\* with the first code point (Absolute for '/', Relative otherwise, '~'
\* apart), a Uri verdict on a letter gives Path(Uri), an Ident verdict on a
\* letter gives an identifier or keyword made of the [A-Za-z0-9_] run.  So
\* "a/3" is Path(Relative, "a/3"), and "a/ 3" is Ident("a"), Div, Integer(3).
C10_Classifier ==
    Classified =>
        LET s == TokText
            v == Verdict(s)
            kind == classify(s)
        IN  /\ kind = (IF v = "Ident" THEN "None" ELSE v)
            /\ (last.kind = "Ok" /\ v = "Path" /\ s[1] # "~") =>
                 /\ last.tok.t = "Path"
                 /\ last.tok.anchor = (IF s[1] = "/" THEN "Absolute" ELSE "Relative")
                 /\ last.tok.s = SubSeq(s, 1, last.meta.span.at - last.meta.span.upto)
            /\ (last.kind = "Ok" /\ v = "Uri" /\ s[1] \in Letters) =>
                 /\ last.tok.t = "Path" /\ last.tok.anchor = "Uri"
                 /\ last.tok.s = SubSeq(s, 1, last.meta.span.at - last.meta.span.upto)
            /\ (v = "Ident" /\ s[1] \in Letters) =>
                 /\ last.kind = "Ok"
                 /\ last.tok.t \in Keywords \cup {"Ident"}
                 /\ last.meta.span.at - last.meta.span.upto
                      = RunLen(s, Letters \cup Digits \cup {"_"})
                 /\ last.tok.t = "Ident" =>
                      last.tok.s = SubSeq(s, 1, last.meta.span.at - last.meta.span.upto)
            /\ s = <<"a", "/", "3">> =>
                 last.tok = TokPath("Relative", <<"a", "/", "3">>) /\ input = <<>>
            /\ s = <<"a", "/", " ", "3">> => last.tok = TokIdent(<<"a">>)
            /\ (s = <<"/", " ", "3">> /\ prevEnd # NoPos) => last.tok = Tok("Div")
            /\ (s = <<"3">> /\ prevEnd # NoPos) => last.tok = TokInteger(<<0, 0, 3>>)

\* "a/ 3" read to its end: the Integer(3) after Ident("a") and Div
C10_Witness ==
    /\ src = <<"a", "/", " ", "3">>
    /\ last.kind = "Ok"
    /\ last.tok.t = "Integer"
    /\ input = <<>>

-----------------------------------------------------------------------------
(* C11: the classifier on a text and on the text with more appended        *)

\* Path, Uri or Ident, from the classifier's Option<IdentType>
VerdictOf(kind) == IF kind = "None" THEN "Ident" ELSE kind

\* the verdict the pull acted on, as the Ok token of a text that starts with
\* a letter shows it
ActedOn ==
    IF last.tok.t = "Path"
    THEN (IF last.tok.anchor = "Uri" THEN "Uri" ELSE "Path")
    ELSE "Ident"

\* the first n code points of the text at the token start are classified as
\* the whole text is, and as the pull on the whole text acted
SameVerdict(n) ==
    LET s == SubSeq(TokText, 1, n)
    IN  /\ VerdictOf(classify(s)) = VerdictOf(classify(TokText))
        /\ (last.kind = "Ok" /\ TokText[1] \in Letters) =>
               VerdictOf(classify(s)) = ActedOn

\* C11 as stated: for every s that holds the code point right after its run
\* R and every t, s and s followed by t get the same verdict among Path,
\* Uri and Ident (s: a prefix of the text at a token start, t: the rest).
C11_StableAfterFirst ==
    Classified =>
        LET r == RunLen(TokText, ExtendedIdent)
        IN  \A n \in (r + 1)..Len(TokText) : SameVerdict(n)

\* C11 amended: the same for every s that holds the code point right after
\* its run R and, when that code point is ':' or '/', the code point after
\* it as well.
C11_StableAfterSecond ==
    Classified =>
        LET r == RunLen(TokText, ExtendedIdent)
        IN  \A n \in (r + 1)..Len(TokText) :
                (TokText[r + 1] \in {":", "/"} => n >= r + 2) => SameVerdict(n)

\* a URI read from a text that goes on after the code point that follows ':'
C11_Witness ==
    /\ last.kind = "Ok"
    /\ TokText[1] \in Letters
    /\ ActedOn = "Uri"
    /\ Len(TokText) > RunLen(TokText, ExtendedIdent) + 2
    /\ \E i \in 1..Len(TokText) : is_whitespace(TokText[i])

-----------------------------------------------------------------------------
(* C12: the parts of an Interpol token                                     *)

\* no two neighbours among the parts of tok are of the same sort, and the
\* same holds of every Interpol token inside its Tokens parts
RECURSIVE Alternates(_)
Alternates(tok) ==
    /\ \A i \in 1..(Len(tok.parts) - 1) : tok.parts[i].p # tok.parts[i + 1].p
    /\ \A i \in 1..Len(tok.parts) :
         \A j \in 1..Len(tok.parts[i].toks) : Alternates(tok.parts[i].toks[j].tok)

\* C12: in every emitted Interpol token, at the top level or inside a group,
\* the parts strictly alternate between Literal and Tokens, in both string
\* modes and for any number of groups.
C12_PartsAlternate == last.kind = "Ok" => Alternates(last.tok)

\* two groups with nothing between them: Literal, Tokens, Literal(""), Tokens
C12_Witness ==
    /\ last.kind = "Ok"
    /\ last.tok.t = "Interpol"
    /\ Len(last.tok.parts) >= 4
    /\ last.tok.parts[3] = Literal(<<>>)
    /\ last.tok.parts[4].p = "Tokens"

-----------------------------------------------------------------------------
(* C13: braces inside a token group                                        *)

\* CurlyBOpen counts +1 and CurlyBClose -1 over the first n tokens of toks
RECURSIVE Depth(_, _)
Depth(toks, n) ==
    IF n = 0 THEN 0
    ELSE Depth(toks, n - 1)
         + (IF toks[n].tok.t = "CurlyBOpen" THEN 1
            ELSE IF toks[n].tok.t = "CurlyBClose" THEN -1 ELSE 0)

\* toks is a group the depth counter allows, and the text goes on after its
\* last token with the '}' that closed it (strings of these texts hold no
\* comments, so only whitespace lies between the two)
Balanced(toks) ==
    /\ \A n \in 0..Len(toks) : Depth(toks, n) >= 0
    /\ Depth(toks, Len(toks)) = 0
    /\ toks # <<>> =>
         LET rest == Unspaced(Drop(src, Len(src) - toks[Len(toks)].meta.span.upto))
         IN  rest # <<>> /\ rest[1] = "}"

RECURSIVE GroupsBalanced(_)
GroupsBalanced(tok) ==
    \A i \in 1..Len(tok.parts) :
        LET toks == tok.parts[i].toks
        IN  /\ tok.parts[i].p = "Tokens" => Balanced(toks)
            /\ \A j \in 1..Len(toks) : GroupsBalanced(toks[j].tok)

\* C13: in every Tokens part, at any nesting depth, each prefix has at least
\* as many CurlyBOpen as CurlyBClose (the counter is never negative), the
\* whole part has equally many (the group ended at a CurlyBClose pulled
\* with the counter at 0), and that CurlyBClose is not in the part.
C13_GroupsBalanced == last.kind = "Ok" => GroupsBalanced(last.tok)

\* a group that holds a pair of braces of its own
C13_Witness ==
    /\ last.kind = "Ok"
    /\ \E i \in 1..Len(last.tok.parts) :
         LET toks == last.tok.parts[i].toks
         IN  /\ Len(toks) >= 2
             /\ toks[1].tok.t = "CurlyBOpen"
             /\ toks[Len(toks)].tok.t = "CurlyBClose"

-----------------------------------------------------------------------------
(* C14: errors inside a token group                                        *)

\* the cursor of a pull
Cursor(inp, r, c) == [input |-> inp, row |-> r, col |-> c, ovf |-> FALSE]

\* the item of the first pull that does not return an Ok token, pulling from
\* st on until the '}' that closes a group entered with the counter at count
\* ("Closed" when the group closes first)
RECURSIVE InnerErr(_, _)
InnerErr(st, count) ==
    LET r == IteratorNext(st)
        t == r.item.tok.t
    IN  IF r.item.kind # "Ok" THEN r.item
        ELSE IF t = "CurlyBClose" /\ count = 0 THEN Item("Closed", NoMeta, NoTok, "")
        ELSE InnerErr(r.st, IF t = "CurlyBOpen" THEN count + 1
                            ELSE IF t = "CurlyBClose" THEN count - 1
                            ELSE count)

\* C14: of a pull that starts at the opening of a string.  When the string
\* starts with "${" and a pull of that group returns an Err item, the pull
\* returns that item, span and error kind unchanged, and so no token for the
\* string.  Every Err item the pull returns is either UnexpectedEOF with the
\* span of the string itself, or the very item a pull from the place of its
\* span returns (the place lies inside the string, at any nesting depth).
C14_InnerErrUnchanged ==
    [][ LET c0 == skip_whitespace(Cursor(input, row, col))
            s == c0.input
            n == IF s # <<>> /\ s[1] = "\"" THEN 1
                 ELSE IF Len(s) >= 2 /\ s[1] = "'" /\ s[2] = "'" THEN 2
                 ELSE 0
            e == last'
        IN  n > 0 =>
              /\ (Len(s) >= n + 2 /\ s[n + 1] = "$" /\ s[n + 2] = "{") =>
                    LET inner == InnerErr(next_n(c0, n + 2), 0)
                    IN  inner.kind = "Err" => e = inner
              /\ e.kind = "Err" =>
                    IF e.meta.span.at = Len(s)
                    THEN e.err = "UnexpectedEOF" /\ e.meta.span.start = <<c0.row, c0.col>>
                    ELSE /\ e.meta.span.at < Len(s)
                         /\ e.meta.span.start = TruePos(src, Len(src) - e.meta.span.at)
                         /\ e = IteratorNext(Cursor(Drop(src, Len(src) - e.meta.span.at),
                                                    e.meta.span.start[1],
                                                    e.meta.span.start[2])).item ]_vars

\* the first pull on a text that opens a string inside a group inside a
\* string returns the UndefinedToken met in the inner group
C14_Witness ==
    /\ Len(src) > 6
    /\ SubSeq(src, 1, 6) = <<"\"", "$", "{", "\"", "$", "{">>
    /\ tick = 1 /\ ~erred /\ prevEnd = NoPos
    /\ last.kind = "Err"
    /\ last.err = "UndefinedToken"
    /\ last.meta.span.at <= Len(src) - 6

-----------------------------------------------------------------------------
(* C15: the comments of a token                                            *)

\* the comment at the head of s: n is the number of code points it takes
\* (0 when s does not start with a comment) and body is its body.  A '#'
\* comment runs to the end of its line, the newline included; a block
\* comment runs from "/*" to the first "*/" after it.
CommentAt(s) ==
    IF s # <<>> /\ s[1] = "#"
    THEN LET nls == {i \in 1..Len(s) : s[i] = "\n"}
             end == IF nls = {} THEN Len(s) ELSE CHOOSE i \in nls : \A j \in nls : i <= j
         IN  [n |-> end, body |-> SubSeq(s, 2, end)]
    ELSE IF Len(s) >= 2 /\ s[1] = "/" /\ s[2] = "*" /\ HasPair(s, "*", "/", 3)
    THEN LET close == CHOOSE i \in 3..(Len(s) - 1) :
                          /\ s[i] = "*" /\ s[i + 1] = "/"
                          /\ ~HasPair(SubSeq(s, 1, i), "*", "/", 3)
         IN  [n |-> close + 1, body |-> SubSeq(s, 3, close - 1)]
    ELSE [n |-> 0, body |-> <<>>]

\* the bodies of the comments that lie in the text s, in order; anything
\* that is not in a comment is passed over
RECURSIVE CommentsIn(_)
CommentsIn(s) ==
    IF s = <<>> THEN <<>>
    ELSE IF CommentAt(s).n > 0
    THEN <<CommentAt(s).body>> \o CommentsIn(Drop(s, CommentAt(s).n))
    ELSE CommentsIn(Tail(s))

\* s without the whitespace and the comments it starts with
RECURSIVE AfterTrivia(_)
AfterTrivia(s) ==
    IF s = <<>> THEN s
    ELSE IF s[1] \in {" ", "\t", "\n", "\r"} THEN AfterTrivia(Tail(s))
    ELSE IF CommentAt(s).n > 0 THEN AfterTrivia(Drop(s, CommentAt(s).n))
    ELSE s

\* the number of code points of src before the position pos
OffsetOf(pos) == CHOOSE k \in 0..Len(src) : TruePos(src, k) = pos

\* the text between the end of the Ok token before the latest one (or the
\* start of the text) and the start of the latest token
Between ==
    LET from == IF prevEnd = NoPos THEN 0 ELSE OffsetOf(prevEnd)
    IN  SubSeq(src, from + 1, Len(src) - last.meta.span.at)

\* C15: for every Ok token, meta.comments is the list of the bodies of the
\* comments that lie between the previous token and this token, in source
\* order: a '#' comment gives its text without the '#' and with the newline
\* when there is one, a block comment the text between "/*" and its "*/".
\* Stated for the tokens that have nothing that looks like a comment after
\* the first code point outside whitespace and comments that lies between
\* them and the previous token, so that the comments between are plain.
C15_CommentsBetween ==
    LET rest == AfterTrivia(Between)
    IN  (/\ last.kind = "Ok"
         /\ \A i \in 1..Len(rest) : rest[i] # "#"
         /\ ~HasPair(rest, "/", "*", 1))
        => last.meta.comments = CommentsIn(Between)

-----------------------------------------------------------------------------
(* C16: newlines and indentation in a multi-line string                    *)

\* the code points of s at the indices keep allows, in order
RECURSIVE Kept(_, _, _)
Kept(s, keep, i) ==
    IF i > Len(s) THEN <<>>
    ELSE (IF i \in keep THEN <<s[i]>> ELSE <<>>) \o Kept(s, keep, i + 1)

\* s without the newlines it starts with
RECURSIVE Unlined(_)
Unlined(s) == IF s # <<>> /\ Head(s) = "\n" THEN Unlined(Tail(s)) ELSE s

\* the body b of a multi-line string as it is to be decoded: without the
\* runs of spaces and tabs that follow a newline, and then without the
\* newlines at its start
Decoded(b) ==
    LET Indent(i) ==
            /\ b[i] \in {" ", "\t"}
            /\ \E j \in 1..(i - 1) :
                 b[j] = "\n" /\ \A k \in (j + 1)..i : b[k] \in {" ", "\t"}
    IN  Unlined(Kept(b, {i \in 1..Len(b) : ~Indent(i)}, 1))

\* the token tok with meta m, when it is a multi-line string: its first
\* literal does not begin with a newline, no literal of it does, and when
\* its body holds neither ' nor $ the token is Str of the decoded body
MultiLineOk(m, tok) ==
    LET s == Drop(src, Len(src) - m.span.at)
        body == SubSeq(s, 3, m.span.at - m.span.upto - 2)
    IN  (tok.t \in {"Str", "Interpol"} /\ s[1] = "'") =>
          /\ tok.t = "Str" => (tok.s = <<>> \/ tok.s[1] # "\n")
          /\ \A i \in 1..Len(tok.parts) :
               tok.parts[i].p = "Literal" =>
                   (tok.parts[i].s = <<>> \/ tok.parts[i].s[1] # "\n")
          /\ (\A i \in 1..Len(body) : body[i] \notin {"'", "$"}) =>
                 tok = TokStr(Decoded(body))

RECURSIVE AllMultiLineOk(_, _)
AllMultiLineOk(m, tok) ==
    /\ MultiLineOk(m, tok)
    /\ \A i \in 1..Len(tok.parts) :
         \A j \in 1..Len(tok.parts[i].toks) :
             AllMultiLineOk(tok.parts[i].toks[j].meta, tok.parts[i].toks[j].tok)

\* C16: the decoded body of a multi-line string (the Str value, or the first
\* Literal part of the Interpol) never begins with a newline: a newline met
\* while the literal buffer is empty is discarded, and the run of spaces and
\* tabs that follows any newline is discarded.  Checked on the strings of
\* the top level and on those inside groups.
C16_NoLeadingNewline == last.kind = "Ok" => AllMultiLineOk(last.meta, last.tok)

\* a multi-line string that starts with a newline and an indented line
C16_Witness ==
    /\ last.kind = "Ok"
    /\ last.tok.t = "Str"
    /\ Len(TokText) >= 5
    /\ SubSeq(TokText, 1, 5) = <<"'", "'", "\n", " ", "a">>
    /\ last.tok.s[1] = "a"

-----------------------------------------------------------------------------
(* C17: keywords                                                           *)

\* the five keywords and their tokens
KeywordTable ==
    {<<(<<"l", "e", "t">>), "Let">>, <<(<<"i", "n">>), "In">>,
     <<(<<"w", "i", "t", "h">>), "With">>,
     <<(<<"i", "m", "p", "o", "r", "t">>), "Import">>,
     <<(<<"r", "e", "c">>), "Rec">>}
KeywordTexts == {kw[1] : kw \in KeywordTable}

\* C17: a token that starts with an ASCII letter and has verdict Ident is
\* Let, In, With, Import or Rec exactly when its [A-Za-z0-9_] run is let, in,
\* with, import or rec, and Ident(run) otherwise; no Ident token carries a
\* keyword; a verdict of Uri never gives a keyword token.
C17_Keywords ==
    /\ (Classified /\ TokText[1] \in Letters) =>
         LET v == Verdict(TokText)
             run == SubSeq(TokText, 1, RunLen(TokText, Letters \cup Digits \cup {"_"}))
         IN  /\ v = "Ident" =>
                  /\ last.kind = "Ok"
                  /\ \A kw \in KeywordTable : (last.tok = Tok(kw[2])) <=> (run = kw[1])
                  /\ run \notin KeywordTexts => last.tok = TokIdent(run)
             /\ v = "Uri" => last.tok.t \notin Keywords
    /\ (last.kind = "Ok" /\ last.tok.t = "Ident") => last.tok.s \notin KeywordTexts

\* rec read as a keyword after another token, with a '.' right after it
C17_Witness ==
    /\ last.kind = "Ok"
    /\ last.tok = Tok("Rec")
    /\ prevEnd # NoPos
    /\ Len(TokText) >= 4 /\ TokText[4] = "."

-----------------------------------------------------------------------------
(* C18: the divisors of the fractional digits                              *)

\* the u32 <<hi, lo>> divided by ten: [q |-> quotient, r |-> remainder]
DivTen(x) ==
    LET low == (x[1] % 10) * 65536 + x[2]
    IN  [q |-> <<x[1] \div 10, low \div 10>>, r |-> low % 10]

\* the u32 x is 10^k
RECURSIVE IsPowTen(_, _)
IsPowTen(x, k) ==
    IF k = 0 THEN x = <<0, 1>>
    ELSE DivTen(x).r = 0 /\ IsPowTen(DivTen(x).q, k - 1)

\* C18: for every k >= 1 and any number of fractional digits the divisor
\* applied to the k-th digit after the '.' is 10^k, the divisor counter
\* never overflows or wraps, and TrailingDecimal is returned exactly when no
\* fractional digit was consumed.  (These texts hold no comments, so a
\* panic here is the overflow of the divisor counter.)
C18_DivisorsExact ==
    /\ last.kind # "Panic"
    /\ (last.kind = "Ok" /\ last.tok.t = "Float") =>
         \A k \in 1..Len(last.tok.frac) : IsPowTen(last.tok.frac[k].i, k)
    /\ (Classified /\ TokText[1] \in Digits) =>
         LET k == RunLen(TokText, Digits)
             n == RunLen(Drop(TokText, k + 1), Digits)
         IN  (/\ Below2p63(SubSeq(TokText, 1, k))
              /\ k < Len(TokText) /\ TokText[k + 1] = ".") =>
                /\ (last.kind = "Err" /\ last.err = "TrailingDecimal") <=> (n = 0)
                /\ n > 0 =>
                     /\ last.kind = "Ok" /\ last.tok.t = "Float"
                     /\ Len(last.tok.frac) = n
                     /\ \A j \in 1..n :
                          last.tok.frac[j].digit = to_digit(TokText[k + 1 + j])

-----------------------------------------------------------------------------
(* C19: backslashes in strings                                             *)

\* the code point of s at index i > from is escaped: the one before it is a
\* backslash that is not escaped itself (the string's body starts after from)
RECURSIVE Escaped(_, _, _)
Escaped(s, from, i) ==
    i > from + 1 /\ s[i - 1] = "\\" /\ ~Escaped(s, from, i - 1)

\* s[i] is the code point c, not escaped
Plain(s, i, c) == s[i] = c /\ ~Escaped(s, 1, i)

\* no "${" with an unescaped '$' starts among the first n code points of s
NoGroup(s, n) == \A i \in 2..n : ~(Plain(s, i, "$") /\ i < Len(s) /\ s[i + 1] = "{")

\* the body between the quotes of the first n code points of s, with every
\* unescaped backslash dropped
Unescaped(s, n) == Kept(SubSeq(s, 1, n - 1), {i \in 2..(n - 1) : ~Plain(s, i, "\\")}, 1)

\* the token tok with meta m, when it is a string without a group: a "..."
\* string ends at its first unescaped '"' and is Str of the body with the
\* unescaped backslashes dropped; a multi-line string without ' and without
\* a newline is Str of its body as it stands, backslashes included
EscapesOk(m, tok) ==
    LET s == Drop(src, Len(src) - m.span.at)
        n == m.span.at - m.span.upto
    IN  /\ (tok.t \in {"Str", "Interpol"} /\ s[1] = "\"" /\ NoGroup(s, n)) =>
              /\ Plain(s, n, "\"")
              /\ \A i \in 2..(n - 1) : ~Plain(s, i, "\"")
              /\ tok = TokStr(Unescaped(s, n))
        /\ (/\ tok.t \in {"Str", "Interpol"} /\ s[1] = "'"
            /\ \A i \in 3..(n - 2) : s[i] \notin {"'", "$", "\n"}) =>
              tok = TokStr(SubSeq(s, 3, n - 2))

RECURSIVE AllEscapesOk(_, _)
AllEscapesOk(m, tok) ==
    /\ EscapesOk(m, tok)
    /\ \A i \in 1..Len(tok.parts) :
         \A j \in 1..Len(tok.parts[i].toks) :
             AllEscapesOk(tok.parts[i].toks[j].meta, tok.parts[i].toks[j].tok)

\* C19: in a "..." string a backslash is dropped and the code point after it
\* is appended unchanged, with no other effect: an escaped '"' does not close
\* the string, an escaped '$' before '{' starts no group, an escaped
\* backslash escapes nothing; in a multi-line string a backslash is an
\* ordinary code point.  The first conjunct is about the strings of the top
\* level and inside groups; the second says that a text with an unescaped
\* closing '"' and no group before it does give the Str token.
C19_Escapes ==
    /\ last.kind = "Ok" => AllEscapesOk(last.meta, last.tok)
    /\ (Classified /\ TokText[1] = "\"") =>
         \A n \in 2..Len(TokText) :
             (Plain(TokText, n, "\"") /\ NoGroup(TokText, n)) =>
                 last.kind = "Ok" /\ last.tok.t = "Str"

\* a string whose body is a backslash and "${", read as the Str of "${"
\* and nothing else
C19_Witness ==
    /\ last.kind = "Ok"
    /\ input = <<>>
    /\ TokText = <<"\"", "\\", "$", "{", "\"">>
    /\ last.tok = TokStr(<<"$", "{">>)

-----------------------------------------------------------------------------
(* C20: end-of-stream                                                      *)

\* C20: whenever a pull returns end-of-stream the remaining input is empty,
\* and every later pull returns end-of-stream as well and leaves row, col
\* and the remaining input as they were.
C20_EndIsSticky ==
    [][ /\ last'.kind = "None" => input' = <<>>
        /\ last.kind = "None" =>
             /\ last'.kind = "None"
             /\ input' = input /\ row' = row /\ col' = col ]_vars

\* the text "#": the first pull reads the comment and returns end-of-stream
\* on row 1, and a second pull has been made
C20_Witness ==
    /\ src = <<"#">>
    /\ last.kind = "None"
    /\ tick = 0
    /\ <<row, col>> = <<1, 0>>

=============================================================================
